---- MODULE Spec2Model ----
(***************************************************************************)
(* cron-ext: reconciliation of the Meltano section of a crontab.           *)
(*                                                                         *)
(* A crontab text is modelled by the sequence of its "\n"-separated        *)
(* segments (what str.split("\n") returns): "" is <<EmptyLine>> and        *)
(* "a\nb\n" is <<a, b, EmptyLine>>.  A line is a record that keeps the     *)
(* features the regular expressions of the program look at.                *)
(*                                                                         *)
(* The commands of main.py construct Cron with the store the --target      *)
(* option names; install and uninstall of Cron read and write `entries`    *)
(* of that store (stores/crontab.py, stores/stdout.py).                    *)
(***************************************************************************)
EXTENDS Integers, Sequences, FiniteSets, TLC

VARIABLES
    crontab,            \* the installed crontab text (what `crontab -l` prints)
    meltano_schedule,   \* schedules `meltano schedule list` reports, elt + job order
    scripts,            \* paths of the files that exist on disk
    stdout,             \* lines printed by the last invocation
    last                \* the last invocation: command, arguments, prior state, outcome

vars == <<crontab, meltano_schedule, scripts, stdout, last>>

-----------------------------------------------------------------------------
(* Bounds of the model *)

MaxUserLines == 2
MaxListLines == 4

-----------------------------------------------------------------------------
(* Lines *)

MELTANO_PROJECT_ID == "p1"
OtherProjectId == "p2"
NoId == "none"

\* cron_ext_dir: <project>/.meltano/run/cron-ext
RunDir == "/project/.meltano/run/cron-ext"
OtherDir == "/some/path/.meltano/run/cron-ext"
RelDir == "rel"

EmptyLine == [kind |-> "blank", ws |-> 0]

\* "# <dashes> <mark> MELTANO CRONTAB SECTION (<id>) <dashes>"; with id = NoId the
\* parentheses are missing, with mark = "none" the line is an ordinary comment.
Comment(mark, id, dashes) ==
    [kind |-> "comment", mark |-> mark, id |-> id, dashes |-> dashes]

ScriptPath(dir, name, ext) ==
    [abs |-> (dir # RelDir), dir |-> dir, name |-> name, ext |-> ext]

\* "<interval> '<path>'" (quoted) or "<interval> <path>" (not quoted)
Cmd(interval, quoted, path) ==
    [kind |-> "cmd", interval |-> interval, quoted |-> quoted, path |-> path]

\* "1 2 3 4 5 true": a cron line that runs something else
Foreign == Cmd("1 2 3 4 5", FALSE, [abs |-> FALSE, dir |-> "", name |-> "true", ext |-> ""])

-----------------------------------------------------------------------------
(* Text <-> lines conversions *)

\* str.splitlines(): a trailing newline does not open a further line
splitlines(text) ==
    IF text[Len(text)] = EmptyLine THEN SubSeq(text, 1, Len(text) - 1) ELSE text

\* "\n".join(lines)
join(lines) == IF lines = <<>> THEN <<EmptyLine>> ELSE lines

\* content.endswith("\n")
endswith_newline(text) == Len(text) >= 2 /\ text[Len(text)] = EmptyLine

-----------------------------------------------------------------------------
(* Entry grammar: cron_ext/entry.py and the class attributes of Cron *)

\* comment_pattern = ^\s*#.*$
comment_pattern(line) == line.kind = "comment"

\* (?i) ... \.sh : the extension matches in either case
IsShExt(ext) == ext \in {"sh", "SH"}

\* entry.entry_pattern = (?i)^.+?'(?P<path>(?:/.*)*/(?P<name>.*)\.sh)'.*$
\* the quoted path starts with "/" and ends in ".sh"
entry_pattern(line) ==
    /\ line.kind = "cmd"
    /\ line.quoted
    /\ line.path.abs
    /\ IsShExt(line.path.ext)

\* Cron.entry_pattern = (?i)^.+?'(?P<path>/?(?:.*/)(?P<name>.*)\.sh)'.*$
\* the leading "/" is optional: the quoted path holds a "/" and ends in ".sh"
cron_entry_pattern(line) ==
    /\ line.kind = "cmd"
    /\ line.quoted
    /\ line.path.dir # ""
    /\ IsShExt(line.path.ext)

\* match["name"], match["path"]
MatchName(line) == line.path.name
MatchPath(line) == line.path

\* bool(comment_pattern.fullmatch(entry)) or not entry.strip()
ignore_entry(line) == comment_pattern(line) \/ line.kind = "blank"

-----------------------------------------------------------------------------
(* Python sequence helpers *)

Reverse(s) == [i \in 1..Len(s) |-> s[Len(s) + 1 - i]]

\* s[lo:hi] with Python's treatment of negative and out-of-range bounds
PyIndex(n, len) ==
    IF n < 0 THEN (IF n + len < 0 THEN 0 ELSE n + len)
    ELSE (IF n > len THEN len ELSE n)

PySlice(s, lo, hi) ==
    LET from == PyIndex(lo, Len(s))
        to == PyIndex(hi, Len(s))
    IN  IF from >= to THEN <<>> ELSE SubSeq(s, from + 1, to)

PySliceFrom(s, lo) == PySlice(s, lo, Len(s))
PySliceTo(s, hi) == PySlice(s, 0, hi)

Range(s) == {s[i] : i \in 1..Len(s)}

-----------------------------------------------------------------------------
(* CrontabEntryStore: cron_ext/stores/crontab.py *)

NotFound == -1

\* ^\s*#\s*-+\s*{which} MELTANO CRONTAB SECTION \((?P<id>.*?)\)\s*-+\s*$
template_match(which, line) ==
    /\ line.kind = "comment"
    /\ line.mark = which
    /\ line.id # NoId
    /\ line.dashes >= 1

\* a locator that takes the marker of any project for a boundary
index_of_any_project_match(which, lines) ==
    LET hits == {i \in 1..Len(lines) : template_match(which, lines[i])}
    IN  IF hits = {} THEN NotFound
        ELSE (CHOOSE i \in hits : \A j \in hits : i <= j) - 1

\* a locator that returns the index of the last matching line, not of the first
index_of_last_match(which, lines) ==
    LET hits == {i \in 1..Len(lines) :
                    template_match(which, lines[i]) /\ lines[i].id = MELTANO_PROJECT_ID}
    IN  IF hits = {} THEN NotFound
        ELSE (CHOOSE i \in hits : \A j \in hits : i >= j) - 1

\* index (from 0) of the first line that matches and carries the project id;
\* NotFound stands for the ValueError
index_of_match(which, lines) ==
    LET hits == {i \in 1..Len(lines) :
                    template_match(which, lines[i]) /\ lines[i].id = MELTANO_PROJECT_ID}
    IN  IF hits = {} THEN NotFound
        ELSE (CHOOSE i \in hits : \A j \in hits : i <= j) - 1

\* (a, b): a is the index after the first BEGIN, b the negative index of the last END
find_meltano_section_indices(lines) ==
    LET begin == index_of_match("BEGIN", lines)
        end == index_of_match("END", Reverse(lines))
    IN  IF begin = NotFound \/ end = NotFound
        THEN [found |-> FALSE, a |-> 0, b |-> 0]
        ELSE [found |-> TRUE, a |-> begin + 1, b |-> (0 - end) - 1]

NotIgnored(line) == ~ignore_entry(line)

\* entries getter
crontab_entries(text) ==
    LET lines == splitlines(text)
        ix == find_meltano_section_indices(lines)
    IN  IF ~ix.found THEN <<>>
        ELSE SelectSeq(PySlice(lines, ix.a, ix.b), NotIgnored)

RECURSIVE store_unique_from(_, _)
store_unique_from(entries, seen) ==
    IF entries = <<>> THEN <<>>
    ELSE LET entry == Head(entries)
             rest == Tail(entries)
         IN  IF ignore_entry(entry)
             THEN <<entry>> \o store_unique_from(rest, seen)
             ELSE IF ~entry_pattern(entry)
             THEN store_unique_from(rest, seen)
             ELSE IF MatchName(entry) \notin seen
             THEN <<entry>> \o store_unique_from(rest, seen \cup {MatchName(entry)})
             ELSE store_unique_from(rest, seen)

\* CrontabEntryStore._unique_entries
store_unique_entries(entries) == store_unique_from(entries, {})

section_template(which) == Comment(which, MELTANO_PROJECT_ID, 5)

\* crontab setter: the text `crontab -` installs
crontab_written(content) ==
    IF endswith_newline(content) THEN content ELSE Append(content, EmptyLine)

\* a setter that leaves a crontab without a section as it is when there is nothing
\* to write
crontab_set_entries_when_needed(text, new_entries) ==
    LET distinct_new_entries == store_unique_entries(new_entries)
        lines == splitlines(text)
        ix == find_meltano_section_indices(lines)
        new_lines ==
            IF ~ix.found
            THEN IF distinct_new_entries = <<>> THEN lines
                 ELSE lines \o <<EmptyLine, section_template("BEGIN")>>
                            \o distinct_new_entries
                            \o <<section_template("END"), EmptyLine>>
            ELSE PySliceTo(lines, ix.a) \o distinct_new_entries \o PySliceFrom(lines, ix.b)
    IN  crontab_written(join(new_lines))

\* entries setter: the new crontab text
crontab_set_entries(text, new_entries) ==
    LET distinct_new_entries == store_unique_entries(new_entries)
        lines == splitlines(text)
        ix == find_meltano_section_indices(lines)
        new_lines ==
            IF ~ix.found
            THEN lines \o <<EmptyLine, section_template("BEGIN")>> \o distinct_new_entries
                       \o <<section_template("END"), EmptyLine>>
            ELSE PySliceTo(lines, ix.a) \o distinct_new_entries \o PySliceFrom(lines, ix.b)
    IN  crontab_written(join(new_lines))

-----------------------------------------------------------------------------
(* StdoutEntryStore: cron_ext/stores/stdout.py *)

\* entries getter
stdout_entries == <<>>

\* entries setter: print(*new_entries, sep="\n"), the text written to stdout
stdout_set_entries(new_entries) == Append(join(new_entries), EmptyLine)

-----------------------------------------------------------------------------
(* EntryStore: the store a Cron is constructed with (Target) *)

Targets == {"crontab", "stdout"}

is_managed(target) == target = "crontab"

\* store.entries
entries(target) ==
    IF target = "crontab" THEN crontab_entries(crontab) ELSE stdout_entries

-----------------------------------------------------------------------------
(* Cron: cron_ext/extension.py *)

meltano_schedule_ids == {meltano_schedule[i].name : i \in 1..Len(meltano_schedule)}

\* predicate of install and uninstall: ids = {} with all_names stands for lambda _: True
Predicate(all_names, ids, name) == all_names \/ name \in ids

command_script(name) == ScriptPath(RunDir, name, "sh")

\* f"{interval} '{command_script.as_posix()}'"
new_entry(schedule) == Cmd(schedule.interval, TRUE, command_script(schedule.name))

Selected(all_names, ids, schedule) == Predicate(all_names, ids, schedule.name)

\* Cron._new_entries: the entries it yields, in schedule order
new_entries(all_names, ids) ==
    LET chosen == SelectSeq(meltano_schedule, LAMBDA s : Selected(all_names, ids, s))
    IN  [i \in 1..Len(chosen) |-> new_entry(chosen[i])]

\* Cron._new_entries: the scripts it writes
new_scripts(all_names, ids) ==
    {command_script(meltano_schedule[i].name) :
        i \in {j \in 1..Len(meltano_schedule) : Selected(all_names, ids, meltano_schedule[j])}}

RECURSIVE cron_unique_from(_, _)
cron_unique_from(es, seen) ==
    IF es = <<>> THEN <<>>
    ELSE LET entry == Head(es)
             rest == Tail(es)
         IN  IF ignore_entry(entry)
             THEN <<entry>> \o cron_unique_from(rest, seen)
             ELSE IF ~cron_entry_pattern(entry)
             THEN cron_unique_from(rest, seen)
             ELSE IF MatchName(entry) \notin seen
             THEN <<entry>> \o cron_unique_from(rest, seen \cup {MatchName(entry)})
             ELSE cron_unique_from(rest, seen)

\* a dedup that keeps the last entry of each name, not the first
cron_unique_entries_keeping_last(es) == Reverse(cron_unique_from(Reverse(es), {}))

\* Cron._unique_entries
cron_unique_entries(es) == cron_unique_from(es, {})

\* store.entries = new_entries, on the store the Cron was constructed with
SetEntries(target, es) ==
    IF target = "crontab"
    THEN /\ crontab' = crontab_set_entries(crontab, es)
         /\ stdout' = <<>>
    ELSE /\ stdout' = stdout_set_entries(es)
         /\ UNCHANGED crontab

NoError == {}

\* the record of an invocation: its command line, the names of the managed entries it
\* read from the store, and its outcome (exit code, the schedule ids the error names)
Run(op, target, ids, all, prev_entries, exit, log) ==
    [op |-> op, target |-> target, ids |-> ids, all |-> all,
     prev_names |-> {MatchName(prev_entries[i]) :
                        i \in {j \in 1..Len(prev_entries) : entry_pattern(prev_entries[j])}},
     exit |-> exit, log |-> log]

\* the difference taken the other way round
known_schedule_ids_not_selected(schedule_ids) == meltano_schedule_ids \ schedule_ids

\* schedule_ids - self.meltano_schedule_ids
unavailable_schedule_ids(schedule_ids) == schedule_ids \ meltano_schedule_ids

\* Cron.install(schedule_ids)
install(target, schedule_ids) ==
    LET all_names == (schedule_ids = {})
        unavailable == unavailable_schedule_ids(schedule_ids)
    IN  /\ scripts' = scripts \cup new_scripts(all_names, schedule_ids)
        /\ SetEntries(target,
                      cron_unique_entries(new_entries(all_names, schedule_ids)
                                          \o entries(target)))
        /\ last' = Run("install", target, schedule_ids, FALSE, entries(target),
                        IF unavailable # {} THEN 1 ELSE 0, unavailable)
        /\ UNCHANGED meltano_schedule

\* a filter that keeps the entries the predicate selects, not the others
kept_entries_selected(es, all_names, ids) ==
    SelectSeq(es, LAMBDA e : cron_entry_pattern(e) /\ Predicate(all_names, ids, MatchName(e)))

\* the entries uninstall keeps
kept_entries(es, all_names, ids) ==
    SelectSeq(es, LAMBDA e : cron_entry_pattern(e) /\ ~Predicate(all_names, ids, MatchName(e)))

\* an uninstall that unlinks the scripts of the entries it reads after its write
unlinked_after_write(prev_entries, all_names, ids) ==
    LET now == kept_entries(prev_entries, all_names, ids)
    IN  {MatchPath(now[i]) :
            i \in {j \in 1..Len(now) :
                      /\ cron_entry_pattern(now[j])
                      /\ Predicate(all_names, ids, MatchName(now[j]))}}

\* the scripts uninstall unlinks
unlinked(prev_entries, all_names, ids) ==
    {MatchPath(prev_entries[i]) :
        i \in {j \in 1..Len(prev_entries) :
                  /\ cron_entry_pattern(prev_entries[j])
                  /\ Predicate(all_names, ids, MatchName(prev_entries[j]))}}

\* Cron.uninstall(schedule_ids, uninstall_all)
uninstall(target, schedule_ids, uninstall_all) ==
    LET prev_entries == entries(target)
        ids == IF schedule_ids # {} THEN schedule_ids ELSE meltano_schedule_ids
    IN  /\ SetEntries(target, kept_entries(entries(target), uninstall_all, ids))
        /\ scripts' = scripts \ unlinked(prev_entries, uninstall_all, ids)
        /\ last' = Run("uninstall", target, schedule_ids, uninstall_all, prev_entries,
                        0, NoError)
        /\ UNCHANGED meltano_schedule

-----------------------------------------------------------------------------
(* The environment: the user's crontab, meltano.yml, the command line *)

Names == {"a", "b"}

Schedule(name, interval) == [name |-> name, interval |-> interval]

\* what `meltano schedule list` can report: "a" is a schedule of the project or not
Snapshots ==
    { <<Schedule("b", "0 * * * *")>>,
      <<Schedule("b", "0 * * * *"), Schedule("a", "5 * * * *")>> }

\* lines a user may put in the crontab
UserLines ==
    { Comment("BEGIN", MELTANO_PROJECT_ID, 3),
      Comment("END", MELTANO_PROJECT_ID, 3),
      Foreign,
      Cmd("0 * * * *", TRUE, ScriptPath(OtherDir, "a", "sh")),
      Cmd("0 * * * *", TRUE, ScriptPath(RelDir, "a", "sh")) }

UserLineCount(text) == Cardinality({i \in 1..Len(text) : text[i] \in UserLines})

\* command lines: [cmd, target, argv, all]
CommandLine(cmd, target, argv, all) ==
    [cmd |-> cmd, target |-> target, argv |-> argv, all |-> all]

InstallLines ==
    {CommandLine("install", "crontab", argv, FALSE) :
        argv \in {<<>>, <<"a">>, <<"a", "b">>, <<"a", "a">>}}
    \cup {CommandLine("install", "stdout", argv, FALSE) : argv \in {<<"a", "b">>}}

UninstallLines ==
    {CommandLine("uninstall", "crontab", argv, FALSE) :
        argv \in {<<>>, <<"a">>, <<"a", "b">>}}
    \cup {CommandLine("uninstall", "crontab", argv, TRUE) : argv \in {<<>>, <<"b">>}}
    \cup {CommandLine("uninstall", "stdout", argv, FALSE) : argv \in {<<>>}}

NoRun == Run("none", "crontab", {}, FALSE, <<>>, 0, NoError)

Init ==
    /\ crontab = <<EmptyLine>>
    /\ meltano_schedule \in Snapshots
    /\ scripts \in SUBSET {ScriptPath(OtherDir, "a", "sh")}
    /\ stdout = <<>>
    /\ last = NoRun

\* the user edits the crontab (crontab -e)
EditCrontab ==
    /\ UserLineCount(crontab) < MaxUserLines
    /\ \E line \in UserLines, at \in 0..Len(splitlines(crontab)) :
          LET lines == splitlines(crontab)
          IN  crontab' = PySliceTo(lines, at) \o <<line>> \o PySliceFrom(lines, at)
                         \o <<EmptyLine>>
    /\ stdout' = <<>>
    /\ last' = NoRun
    /\ UNCHANGED <<meltano_schedule, scripts>>

\* main.install: Cron(store=target).install(set(schedule_ids or ()))
InstallCommand ==
    \E c \in InstallLines : install(c.target, Range(c.argv))

\* main.uninstall: Cron(store=target).uninstall(set(schedule_ids or ()), uninstall_all)
UninstallCommand ==
    \E c \in UninstallLines : uninstall(c.target, Range(c.argv), c.all)

Next == EditCrontab \/ InstallCommand \/ UninstallCommand

Spec == Init /\ [][Next]_vars

-----------------------------------------------------------------------------
(* list: cron_ext/main.py *)

\* the two filters taken for each other
orphaned_filter_predicate_swapped(orphaned, name) ==
    CASE orphaned = "True" -> name \in meltano_schedule_ids
      [] orphaned = "False" -> name \notin meltano_schedule_ids
      [] OTHER -> TRUE

\* _orphaned_filter_predicate; orphaned is "None", "True" or "False"
orphaned_filter_predicate(orphaned, name) ==
    CASE orphaned = "True" -> name \notin meltano_schedule_ids
      [] orphaned = "False" -> name \in meltano_schedule_ids
      [] OTHER -> TRUE

\* the entries list_command keeps: the pairs of _get_name_entry_pairs that pass the filter
filtered_entries(es, orphaned) ==
    SelectSeq(es, LAMBDA e : entry_pattern(e) /\ orphaned_filter_predicate(orphaned, MatchName(e)))

\* name_entry_pair[not name_only]
listed(es, name_only) ==
    [i \in 1..Len(es) |-> IF name_only THEN MatchName(es[i]) ELSE es[i]]

\* typer.echo("\n".join(entries)) when there are entries
echoed(items) == IF items = <<>> THEN <<>> ELSE Append(items, EmptyLine)

list_command(target, name_only, orphaned) ==
    /\ stdout' = echoed(listed(filtered_entries(entries(target), orphaned), name_only))
    /\ last' = [op |-> "list", target |-> target, ids |-> {}, all |-> FALSE,
                prev_names |-> {}, exit |-> 0, log |-> NoError,
                name_only |-> name_only, orphaned |-> orphaned]
    /\ UNCHANGED <<crontab, meltano_schedule, scripts>>

\* cron list [--target] [--name-only] [--orphaned | --not-orphaned]
ListCommand ==
    \E target \in Targets, name_only \in BOOLEAN, orphaned \in {"None", "True", "False"} :
        list_command(target, name_only, orphaned)

-----------------------------------------------------------------------------
(* Reading arbitrary crontabs: every text of at most MaxListLines lines *)

ListLines ==
    { Comment("BEGIN", MELTANO_PROJECT_ID, 3),
      Comment("END", MELTANO_PROJECT_ID, 1),
      Comment("BEGIN", OtherProjectId, 3),
      Comment("END", NoId, 3),
      [kind |-> "blank", ws |-> 2],
      Foreign,
      Cmd("0 * * * *", TRUE, ScriptPath(OtherDir, "a", "sh")),
      Cmd("0 * * * *", TRUE, ScriptPath(OtherDir, "b", "sh")) }

InitList ==
    /\ \E n \in 0..MaxListLines : \E lines \in [1..n -> ListLines] :
          crontab = Append(lines, EmptyLine)
    /\ meltano_schedule = <<Schedule("b", "0 * * * *")>>
    /\ scripts = {}
    /\ stdout = <<>>
    /\ last = NoRun

SpecList == InitList /\ [][ListCommand]_vars


-----------------------------------------------------------------------------
(* The external commands: `meltano schedule list`, `crontab -l`, `crontab -` *)

\* what subprocess.run(args, check=True) does: it returns the completed process, or
\* raises CalledProcessError for a non-zero return code, or OSError (no such command)
Completed == [raised |-> "none", returncode |-> 0]
CalledProcessError(returncode) == [raised |-> "CalledProcessError", returncode |-> returncode]
OSError == [raised |-> "OSError", returncode |-> 0]

SubprocessOutcomes == {Completed, CalledProcessError(1), CalledProcessError(2), OSError}

\* run_subprocess: `proc` is unbound in the handler of CalledProcessError, so
\* `sys.exit(proc.returncode)` and `return proc` raise UnboundLocalError there, which no
\* caller catches: the interpreter prints the traceback and exits with status 1
run_subprocess(outcome, exit_on_nonzero_returncode) ==
    CASE outcome.raised = "none" ->
            [ends |-> "return", exit |-> 0, log |-> <<>>]
      [] outcome.raised = "CalledProcessError" ->
            [ends |-> "UnboundLocalError", exit |-> 1,
             log |-> <<IF exit_on_nonzero_returncode THEN "critical" ELSE "error">>]
      [] OTHER ->
            [ends |-> "SystemExit", exit |-> 1, log |-> <<"exception">>]

\* the record of an invocation whose external commands may fail: how `crontab -l`
\* went if it was run, the command that ended the invocation with its return code,
\* how the process ended, its exit code, the log levels
Ended(op, target, ids, all, read, call, outcome, ends, exit, log) ==
    [op |-> op, target |-> target, ids |-> ids, all |-> all,
     read |-> read, call |-> call, raised |-> outcome.raised, returncode |-> outcome.returncode,
     ends |-> ends, exit |-> exit, log |-> log]

Failed(op, target, ids, all, read, call, outcome, result) ==
    Ended(op, target, ids, all, read, call, outcome, result.ends, result.exit, result.log)

Returned(op, target, ids, all, read, exit, log) ==
    Ended(op, target, ids, all, read, "none", Completed, "return", exit, log)

NotCalled == "not called"

\* how `crontab -l` went: only the crontab store runs it
ReadOf(target, reading) == IF target = "crontab" THEN reading.raised ELSE NotCalled

\* the store runs `crontab -l` and `crontab -`; the stdout store runs no command
StoreCall(target, outcome, exit_on_nonzero_returncode) ==
    IF target = "crontab" THEN run_subprocess(outcome, exit_on_nonzero_returncode)
    ELSE run_subprocess(Completed, exit_on_nonzero_returncode)

\* Cron.install: _new_entries lists the schedules and writes the scripts, then the
\* store is read, then written, then the unavailable ids are reported
install_calling(target, schedule_ids, listing, reading, writing) ==
    LET all_names == (schedule_ids = {})
        listed_schedules == run_subprocess(listing, TRUE)
        read == StoreCall(target, reading, FALSE)
        written == StoreCall(target, writing, TRUE)
        unavailable == unavailable_schedule_ids(schedule_ids)
    IN  /\ UNCHANGED meltano_schedule
        /\ IF listed_schedules.ends # "return"
           THEN /\ last' = Failed("install", target, schedule_ids, FALSE, NotCalled,
                                  "meltano schedule list", listing, listed_schedules)
                /\ stdout' = <<>>
                /\ UNCHANGED <<crontab, scripts>>
           ELSE /\ scripts' = scripts \cup new_scripts(all_names, schedule_ids)
                /\ IF read.ends # "return"
                   THEN /\ last' = Failed("install", target, schedule_ids, FALSE,
                                          ReadOf(target, reading), "crontab -l", reading, read)
                        /\ stdout' = <<>>
                        /\ UNCHANGED crontab
                   ELSE IF written.ends # "return"
                   THEN /\ last' = Failed("install", target, schedule_ids, FALSE,
                                          ReadOf(target, reading), "crontab -", writing, written)
                        /\ stdout' = <<>>
                        /\ UNCHANGED crontab
                   ELSE /\ SetEntries(target,
                               cron_unique_entries(new_entries(all_names, schedule_ids)
                                                   \o entries(target)))
                        /\ last' = Returned("install", target, schedule_ids, FALSE,
                                            ReadOf(target, reading),
                                            IF unavailable # {} THEN 1 ELSE 0,
                                            IF unavailable # {} THEN <<"error">> ELSE <<>>)

\* Cron.uninstall: the store is read; the default predicate lists the schedules when
\* it is first applied to an entry; then the store is written and the scripts unlinked
uninstall_calling(target, schedule_ids, uninstall_all, listing, reading, writing) ==
    LET prev_entries == entries(target)
        ids == IF schedule_ids # {} THEN schedule_ids ELSE meltano_schedule_ids
        needs_schedules == /\ ~uninstall_all /\ schedule_ids = {}
                           /\ \E i \in 1..Len(prev_entries) : cron_entry_pattern(prev_entries[i])
        read == StoreCall(target, reading, FALSE)
        listed_schedules == IF needs_schedules THEN run_subprocess(listing, TRUE)
                            ELSE run_subprocess(Completed, TRUE)
        written == StoreCall(target, writing, TRUE)
    IN  /\ UNCHANGED meltano_schedule
        /\ IF read.ends # "return"
           THEN /\ last' = Failed("uninstall", target, schedule_ids, uninstall_all,
                                  ReadOf(target, reading), "crontab -l", reading, read)
                /\ stdout' = <<>>
                /\ UNCHANGED <<crontab, scripts>>
           ELSE IF listed_schedules.ends # "return"
           THEN /\ last' = Failed("uninstall", target, schedule_ids, uninstall_all,
                                  ReadOf(target, reading), "meltano schedule list", listing, listed_schedules)
                /\ stdout' = <<>>
                /\ UNCHANGED <<crontab, scripts>>
           ELSE IF written.ends # "return"
           THEN /\ last' = Failed("uninstall", target, schedule_ids, uninstall_all,
                                  ReadOf(target, reading), "crontab -", writing, written)
                /\ stdout' = <<>>
                /\ UNCHANGED <<crontab, scripts>>
           ELSE /\ SetEntries(target, kept_entries(prev_entries, uninstall_all, ids))
                /\ scripts' = scripts \ unlinked(prev_entries, uninstall_all, ids)
                /\ last' = Returned("uninstall", target, schedule_ids, uninstall_all,
                                    ReadOf(target, reading), 0, <<>>)

\* list_command: the store is read; the orphan predicates list the schedules when
\* they are first applied to a managed entry
list_calling(target, name_only, orphaned, listing, reading) ==
    LET read == StoreCall(target, reading, FALSE)
        needs_schedules == /\ orphaned # "None"
                           /\ \E i \in 1..Len(entries(target)) : entry_pattern(entries(target)[i])
        listed_schedules == IF needs_schedules THEN run_subprocess(listing, TRUE)
                            ELSE run_subprocess(Completed, TRUE)
    IN  /\ UNCHANGED <<crontab, meltano_schedule, scripts>>
        /\ IF read.ends # "return"
           THEN /\ last' = Failed("list", target, {}, FALSE, ReadOf(target, reading),
                                "crontab -l", reading, read)
                /\ stdout' = <<>>
           ELSE IF listed_schedules.ends # "return"
           THEN /\ last' = Failed("list", target, {}, FALSE, ReadOf(target, reading),
                                  "meltano schedule list", listing, listed_schedules)
                /\ stdout' = <<>>
           ELSE /\ stdout' = echoed(listed(filtered_entries(entries(target), orphaned),
                                           name_only))
                /\ last' = Returned("list", target, {}, FALSE, ReadOf(target, reading), 0, <<>>)

InstallCalling ==
    \E c \in InstallLines, listing, reading, writing \in SubprocessOutcomes :
        install_calling(c.target, Range(c.argv), listing, reading, writing)

UninstallCalling ==
    \E c \in UninstallLines, listing, reading, writing \in SubprocessOutcomes :
        uninstall_calling(c.target, Range(c.argv), c.all, listing, reading, writing)

ListCalling ==
    \E target \in Targets, orphaned \in {"None", "True", "False"} :
        \E listing, reading \in SubprocessOutcomes :
            list_calling(target, FALSE, orphaned, listing, reading)

NotRun == Returned("none", "crontab", {}, FALSE, NotCalled, 0, <<>>)

\* a crontab the user wrote: empty, or one entry of a schedule that is gone
InitCalling ==
    /\ crontab \in {<<EmptyLine>>,
                    <<Cmd("0 * * * *", TRUE, ScriptPath(OtherDir, "a", "sh")), EmptyLine>>}
    /\ meltano_schedule \in Snapshots
    /\ scripts = {}
    /\ stdout = <<>>
    /\ last = NotRun

NextCalling == InstallCalling \/ UninstallCalling \/ ListCalling

SpecCalling == InitCalling /\ [][NextCalling]_vars

-----------------------------------------------------------------------------
(* The stores by themselves: reads and writes of `entries` on any crontab *)

MaxStoreLines == 3
MaxGiven == 2

\* what a caller can assign to `entries`: entries, also two of one name, other lines
GivenLines ==
    { Cmd("0 * * * *", TRUE, ScriptPath(OtherDir, "a", "sh")),
      Cmd("5 * * * *", TRUE, ScriptPath(RunDir, "a", "sh")),
      Foreign }

Given == UNION {[1..n -> GivenLines] : n \in 0..MaxGiven}

Access(op, target, given, result) ==
    [op |-> op, target |-> target, given |-> given, result |-> result]

\* store.entries
GetEntries ==
    \E target \in Targets :
        /\ last' = Access("get", target, <<>>, entries(target))
        /\ UNCHANGED <<crontab, meltano_schedule, scripts, stdout>>

\* store.entries = given
AssignEntries ==
    \E target \in Targets, given \in Given :
        /\ SetEntries(target, given)
        /\ last' = Access("set", target, given, <<>>)
        /\ UNCHANGED <<meltano_schedule, scripts>>

InitStore ==
    /\ \E n \in 0..MaxStoreLines : \E lines \in [1..n -> ListLines] :
          crontab = Append(lines, EmptyLine)
    /\ meltano_schedule = <<Schedule("b", "0 * * * *")>>
    /\ scripts = {}
    /\ stdout = <<>>
    /\ last = Access("none", "crontab", <<>>, <<>>)

NextStore == GetEntries \/ AssignEntries

SpecStore == InitStore /\ [][NextStore]_vars

-----------------------------------------------------------------------------
(* Crontabs shared with other projects: markers of this project, of another, of none *)

MaxKeyedLines == 3

KeyedLines ==
    { Comment("BEGIN", MELTANO_PROJECT_ID, 3),
      Comment("END", MELTANO_PROJECT_ID, 3),
      Comment("BEGIN", OtherProjectId, 3),
      Comment("END", OtherProjectId, 3),
      Comment("BEGIN", NoId, 3),
      Comment("END", NoId, 3),
      Cmd("0 * * * *", TRUE, ScriptPath(OtherDir, "a", "sh")) }

InitKeyed ==
    /\ \E n \in 0..MaxKeyedLines : \E lines \in [1..n -> KeyedLines] :
          crontab = Append(lines, EmptyLine)
    /\ meltano_schedule \in Snapshots
    /\ scripts = {}
    /\ stdout = <<>>
    /\ last = NoRun

NextKeyed == GetEntries \/ InstallCommand

SpecKeyed == InitKeyed /\ [][NextKeyed]_vars

-----------------------------------------------------------------------------
(* Concurrent invocations on one crontab: nothing serialises them.  An invocation *)
(* reads the crontab once (`_crontab` is a cached property), computes the new     *)
(* text from what it read and hands the whole text to `crontab -`.                *)

MaxInvocations == 3

Invocations == 1..MaxInvocations

ConcurrentLines ==
    { CommandLine("install", "crontab", <<"a">>, FALSE),
      CommandLine("install", "crontab", <<"b">>, FALSE),
      CommandLine("uninstall", "crontab", <<"a">>, FALSE),
      CommandLine("uninstall", "crontab", <<>>, FALSE) }

NotRead == <<>>

\* an invocation: its command line, its position, the crontab text it has cached
Waiting ==
    [cmd |-> CommandLine("none", "crontab", <<>>, FALSE), pc |-> "idle",
     content |-> NotRead, exit |-> 0]

Concurrently(procs) == [op |-> "concurrent", target |-> "crontab", procs |-> procs]

\* a store that reads the crontab again for every use of its content
fresh_crontab(p) == crontab

\* self._crontab once read
cached_crontab(p) == last.procs[p].content

At(p, pc) == last.procs[p].pc = pc

Goto(p, pc, content, exit) ==
    last' = Concurrently([last.procs EXCEPT
                            ![p] = [cmd |-> @.cmd, pc |-> pc, content |-> content,
                                    exit |-> exit]])

\* cron install ... / cron uninstall ... is started
Invoke(p) ==
    /\ At(p, "idle")
    /\ \E c \in ConcurrentLines :
          last' = Concurrently([last.procs EXCEPT
                                  ![p] = [cmd |-> c,
                                          pc |-> IF c.cmd = "install" THEN "scripts"
                                                 ELSE "read",
                                          content |-> NotRead, exit |-> 0]])
    /\ UNCHANGED <<crontab, meltano_schedule, scripts, stdout>>

\* install: *self._new_entries(predicate) writes the scripts before entries is read
WriteScripts(p) ==
    /\ At(p, "scripts")
    /\ LET schedule_ids == Range(last.procs[p].cmd.argv)
       IN  scripts' = scripts \cup new_scripts(schedule_ids = {}, schedule_ids)
    /\ Goto(p, "read", NotRead, 0)
    /\ UNCHANGED <<crontab, meltano_schedule, stdout>>

\* an uninstall that unlinks the scripts as soon as it has read the entries, before
\* its write
ReadCrontabAndUnlink(p) ==
    /\ At(p, "read")
    /\ Goto(p, "write", crontab, 0)
    /\ LET c == last.procs[p].cmd
           schedule_ids == Range(c.argv)
           ids == IF schedule_ids # {} THEN schedule_ids ELSE meltano_schedule_ids
       IN  scripts' = IF c.cmd = "uninstall"
                      THEN scripts \ unlinked(crontab_entries(crontab), c.all, ids)
                      ELSE scripts
    /\ UNCHANGED <<crontab, meltano_schedule, stdout>>

\* the first use of self.crontab: crontab -l
ReadCrontab(p) ==
    /\ At(p, "read")
    /\ Goto(p, "write", crontab, 0)
    /\ UNCHANGED <<crontab, meltano_schedule, scripts, stdout>>

\* self.entries = ...: the text is computed from the cached content; crontab -
WriteCrontab(p) ==
    /\ At(p, "write")
    /\ LET c == last.procs[p].cmd
           schedule_ids == Range(c.argv)
           prev_entries == crontab_entries(cached_crontab(p))
           ids == IF schedule_ids # {} THEN schedule_ids ELSE meltano_schedule_ids
       IN  IF c.cmd = "install"
           THEN /\ crontab' =
                      crontab_set_entries(
                          cached_crontab(p),
                          cron_unique_entries(
                              new_entries(schedule_ids = {}, schedule_ids)
                                  \o prev_entries))
                /\ Goto(p, "done", cached_crontab(p),
                        IF unavailable_schedule_ids(schedule_ids) # {} THEN 1 ELSE 0)
           ELSE /\ crontab' =
                      crontab_set_entries(cached_crontab(p),
                                          kept_entries(prev_entries, c.all, ids))
                /\ Goto(p, "unlink", cached_crontab(p), 0)
    /\ UNCHANGED <<meltano_schedule, scripts, stdout>>

\* uninstall: the scripts of the removed entries of prev_entries are unlinked
UnlinkScripts(p) ==
    /\ At(p, "unlink")
    /\ LET c == last.procs[p].cmd
           schedule_ids == Range(c.argv)
           ids == IF schedule_ids # {} THEN schedule_ids ELSE meltano_schedule_ids
       IN  scripts' = scripts \ unlinked(crontab_entries(cached_crontab(p)), c.all, ids)
    /\ Goto(p, "done", cached_crontab(p), 0)
    /\ UNCHANGED <<crontab, meltano_schedule, stdout>>

\* the crontab and the scripts after `cron install a`
InitConcurrent ==
    /\ meltano_schedule = <<Schedule("b", "0 * * * *"), Schedule("a", "5 * * * *")>>
    /\ crontab = crontab_set_entries(<<EmptyLine>>,
                                     <<new_entry(Schedule("a", "5 * * * *"))>>)
    /\ scripts = {command_script("a")}
    /\ stdout = <<>>
    /\ last = Concurrently([p \in Invocations |-> Waiting])

NextConcurrent ==
    \E p \in Invocations :
        \/ Invoke(p)
        \/ WriteScripts(p)
        \/ ReadCrontab(p)
        \/ WriteCrontab(p)
        \/ UnlinkScripts(p)

SpecConcurrent == InitConcurrent /\ [][NextConcurrent]_vars

-----------------------------------------------------------------------------
(* One invocation at a time, step by step; `crontab -` may fail *)

\* crontab -: the command fails and run_subprocess ends the process with status 1;
\* the crontab stays as it was and nothing after the write is run
CrontabWriteFails(p) ==
    /\ At(p, "write")
    /\ Goto(p, "done", cached_crontab(p), 1)
    /\ UNCHANGED <<crontab, meltano_schedule, scripts, stdout>>

\* no other invocation is in progress
Alone(p) == \A q \in Invocations \ {p} : last.procs[q].pc \in {"idle", "done"}

NextStepwise ==
    \E p \in Invocations :
        /\ Alone(p)
        /\ \/ Invoke(p)
           \/ WriteScripts(p)
           \/ ReadCrontab(p)
           \/ WriteCrontab(p)
           \/ CrontabWriteFails(p)
           \/ UnlinkScripts(p)

SpecStepwise == InitConcurrent /\ [][NextStepwise]_vars

-----------------------------------------------------------------------------
(* Vocabulary of the properties *)

IsBegin(line) == template_match("BEGIN", line) /\ line.id = MELTANO_PROJECT_ID
IsEnd(line) == template_match("END", line) /\ line.id = MELTANO_PROJECT_ID

Begins(lines) == {i \in 1..Len(lines) : IsBegin(lines[i])}
Ends(lines) == {i \in 1..Len(lines) : IsEnd(lines[i])}
Min(S) == CHOOSE i \in S : \A j \in S : i <= j
Max(S) == CHOOSE i \in S : \A j \in S : i >= j

HasSection(text) == Begins(splitlines(text)) # {} /\ Ends(splitlines(text)) # {}

\* the lines strictly between the first BEGIN and the last END marker of the project
SectionLines(text) ==
    LET lines == splitlines(text)
    IN  IF ~HasSection(text) THEN <<>>
        ELSE [i \in 1..(Max(Ends(lines)) - Min(Begins(lines)) - 1)
                 |-> lines[Min(Begins(lines)) + i]]

IsManaged(line) == entry_pattern(line)

\* the managed entries of the section, in order
Managed(text) == SelectSeq(SectionLines(text), IsManaged)

NamesOf(es) == {MatchName(es[i]) : i \in 1..Len(es)}

Named(es, name) == SelectSeq(es, LAMBDA e : MatchName(e) = name)

Ran(op, target) == last.op = op /\ last.target = target

\* the step is an invocation of the command on the target
Runs(op, target) == last'.op = op /\ last'.target = target

\* the schedule of the snapshot with this name
ScheduleNamed(name) ==
    meltano_schedule[CHOOSE i \in 1..Len(meltano_schedule) : meltano_schedule[i].name = name]

\* the names install generates entries for: the selection, or every schedule
Generated(ids) == IF ids = {} THEN meltano_schedule_ids ELSE ids \cap meltano_schedule_ids

\* the line install writes for a schedule: "<interval> '<cron_ext_dir>/<name>.sh'"
LineOf(name) ==
    [kind |-> "cmd", interval |-> ScheduleNamed(name).interval, quoted |-> TRUE,
     path |-> [abs |-> TRUE, dir |-> RunDir, name |-> name, ext |-> "sh"]]

-----------------------------------------------------------------------------
(* C1: after an install or uninstall on the crontab store, whatever the crontab *)
(* held before, no two managed entries of the section have the same name.      *)
C1_DedupInvariant ==
    (last.op \in {"install", "uninstall"} /\ last.target = "crontab")
        => \A i, j \in 1..Len(Managed(crontab)) :
              MatchName(Managed(crontab)[i]) = MatchName(Managed(crontab)[j]) => i = j

(* C2: when the section holds a managed entry named X and install generates an *)
(* entry named X, the section afterwards holds exactly one entry named X: the  *)
(* generated line.                                                             *)
C2_DedupPriority ==
    [][Runs("install", "crontab")
        => \A X \in Generated(last'.ids) \cap NamesOf(Managed(crontab)) :
              Named(Managed(crontab'), X) = <<LineOf(X)>>]_vars

\* install generated "a" over an older entry "a"; the section holds the new line only
C2_Witness ==
    /\ Ran("install", "crontab")
    /\ "a" \in Generated(last.ids) \cap last.prev_names
    /\ Named(Managed(crontab), "a") = <<LineOf("a")>>
    /\ LineOf("a") # Cmd("0 * * * *", TRUE, ScriptPath(OtherDir, "a", "sh"))

(* C3: install run twice in succession with the same selection on the same     *)
(* target: the second run leaves the store content (and what was emitted) as   *)
(* the first run left it, line for line.                                       *)
C3_InstallIdempotent ==
    [][(/\ last.op = "install" /\ Runs("install", last.target)
        /\ last'.ids = last.ids)
        => crontab' = crontab /\ stdout' = stdout]_vars

\* the lines of a sequence at the positions that satisfy Keep, in order
SelectByIndex(lines, Keep(_)) ==
    LET indexed == [i \in 1..Len(lines) |-> <<i, lines[i]>>]
        kept == SelectSeq(indexed, LAMBDA p : Keep(p[1]))
    IN  [i \in 1..Len(kept) |-> kept[i][2]]

\* the lines outside the section: up to and including the first BEGIN marker and
\* from the last END marker onward; every line when there is no section
OutsideOf(lines) ==
    IF Begins(lines) = {} \/ Ends(lines) = {} THEN lines
    ELSE SelectByIndex(lines, LAMBDA i : i <= Min(Begins(lines)) \/ i >= Max(Ends(lines)))

IsStoreLine(line) ==
    line \in {EmptyLine, section_template("BEGIN"), section_template("END")} \/ IsManaged(line)

Mutates(target) == Runs("install", target) \/ Runs("uninstall", target)

(* C4: install and uninstall on the crontab leave the lines outside the section *)
(* as they were: the same lines in the same order, each exactly once.  Without *)
(* a section every line is outside, and what the store adds comes after them.  *)
C4_OutsideIsolated ==
    [][Mutates("crontab")
        => LET pre == splitlines(crontab)
               post == splitlines(crontab')
           IN  IF HasSection(crontab)
               THEN OutsideOf(post) = OutsideOf(pre)
               ELSE /\ Len(post) >= Len(pre)
                    /\ SubSeq(post, 1, Len(pre)) = pre
                    /\ \A i \in (Len(pre) + 1)..Len(post) : IsStoreLine(post[i])]_vars

(* C5: every line of the section that is not a managed entry (a comment, a     *)
(* blank line, a line outside the entry grammar) is still in the section after *)
(* install and after uninstall.                                                *)
C5_ForeignInsidePreserved ==
    [][Mutates("crontab")
        => \A i \in 1..Len(SectionLines(crontab)) :
              ~IsManaged(SectionLines(crontab)[i])
                  => SectionLines(crontab)[i] \in Range(SectionLines(crontab'))]_vars

IsCommentOrBlank(line) == line.kind \in {"comment", "blank"}

(* C6: when the lines hold a BEGIN and an END marker of the project, the       *)
(* locator selects the lines strictly after the first BEGIN and strictly       *)
(* before the last END, whatever markers lie between them; the getter returns  *)
(* the lines of that span that are neither comment nor blank, in order; and    *)
(* the unfiltered list prints the managed entries of that span.                *)
C6_MaximalSection ==
    LET lines == splitlines(crontab)
        ix == find_meltano_section_indices(lines)
        span == SectionLines(crontab)
    IN  /\ HasSection(crontab)
            => /\ ix.found
               /\ PySlice(lines, ix.a, ix.b) = span
               /\ crontab_entries(crontab) = SelectSeq(span, LAMBDA l : ~IsCommentOrBlank(l))
        /\ (/\ Ran("list", "crontab") /\ last.orphaned = "None" /\ ~last.name_only
            /\ HasSection(crontab))
            => stdout = echoed(SelectSeq(span, IsManaged))

\* a list ran over a section that has a further END marker inside the span and a
\* managed entry after it, and printed that entry
C6_Witness ==
    /\ Ran("list", "crontab") /\ last.orphaned = "None" /\ ~last.name_only
    /\ \E i, j \in 1..Len(SectionLines(crontab)) :
          /\ i < j
          /\ IsEnd(SectionLines(crontab)[i])
          /\ IsManaged(SectionLines(crontab)[j])
          /\ SectionLines(crontab)[j] \in Range(stdout)

\* where install puts the entries: the section of the crontab, or the output
Stored(target) == IF target = "crontab" THEN Range(Managed(crontab)) ELSE Range(stdout)

(* C7: after install, every selected name the snapshot knows has its script    *)
(* written and its entry stored; the exit code is 1 exactly when the selection *)
(* names a schedule the snapshot does not know, and the reported set is the    *)
(* selected names minus the known names.                                       *)
C7_InstallPartialSuccess ==
    last.op = "install"
        => /\ \A name \in Generated(last.ids) :
                 /\ command_script(name) \in scripts
                 /\ LineOf(name) \in Stored(last.target)
           /\ last.log = last.ids \ meltano_schedule_ids
           /\ last.exit = (IF last.ids \ meltano_schedule_ids # {} THEN 1 ELSE 0)

\* install of "a" and "b" where only "b" is known: "b" is installed, "a" reported
C7_Witness ==
    /\ Ran("install", "crontab")
    /\ last.ids = {"a", "b"} /\ meltano_schedule_ids = {"b"}
    /\ last.exit = 1 /\ last.log = {"a"}
    /\ LineOf("b") \in Range(Managed(crontab))
    /\ command_script("b") \in scripts

(* C8: uninstall on the stdout store fails with a non-zero exit before it      *)
(* changes anything: nothing is emitted and no script is deleted.              *)
C8_UninstallStdoutFails ==
    [][Runs("uninstall", "stdout")
        => last'.exit # 0 /\ stdout' = <<>> /\ scripts' = scripts]_vars

\* the first entry of each name, in order
FirstOfEachName(es) ==
    SelectByIndex(es, LAMBDA i : \A j \in 1..(i - 1) : MatchName(es[j]) # MatchName(es[i]))

IsOrphan(e) == MatchName(e) \notin meltano_schedule_ids

DefaultUninstall == Runs("uninstall", "crontab") /\ last'.ids = {} /\ ~last'.all

OrphanScriptsKept ==
    \A i \in 1..Len(Managed(crontab)) :
        (IsOrphan(Managed(crontab)[i]) /\ MatchPath(Managed(crontab)[i]) \in scripts)
            => MatchPath(Managed(crontab)[i]) \in scripts'

C10_SelectiveInstallExact ==
    [][(Runs("install", "crontab") /\ last'.ids # {})
        => /\ scripts' = scripts \cup {command_script(name) : name \in Generated(last'.ids)}
           /\ NamesOf(Managed(crontab')) = Generated(last'.ids) \cup NamesOf(Managed(crontab))]_vars

SelectiveUninstall == Runs("uninstall", "crontab") /\ last'.ids # {} /\ ~last'.all

(* C11: uninstall of a non-empty selection S without --all: the managed names  *)
(* of the section afterwards are the managed names before minus S, and the     *)
(* command ends without error also when S names schedules that are not         *)
(* installed or not known.                                                     *)
C11_SelectiveUninstallExact ==
    [][SelectiveUninstall
        => /\ NamesOf(Managed(crontab')) = NamesOf(Managed(crontab)) \ last'.ids
           /\ last'.exit = 0]_vars

FirstBegin(text) == splitlines(text)[Min(Begins(splitlines(text)))]
LastEnd(text) == splitlines(text)[Max(Ends(splitlines(text)))]

(* C12: uninstall with --all, whatever names are given, leaves no managed      *)
(* entry in the section, known to the snapshot or not; the section exists      *)
(* afterwards, and the marker lines of a section that existed are kept.        *)
C12_UninstallAll ==
    [][(Runs("uninstall", "crontab") /\ last'.all)
        => /\ HasSection(crontab')
           /\ Managed(crontab') = <<>>
           /\ HasSection(crontab)
                 => /\ FirstBegin(crontab') = FirstBegin(crontab)
                    /\ LastEnd(crontab') = LastEnd(crontab)]_vars

\* the files of the script directory of the project
WrapperScripts(files) == {p \in files : p.dir = RunDir}

\* the step is a default uninstall that follows an install of all schedules which
\* found no managed entry in the store
RoundTrip ==
    /\ Ran("install", "crontab") /\ last.ids = {} /\ last.prev_names = {}
    /\ DefaultUninstall

(* C13: install of all schedules into a store without managed entries, then    *)
(* uninstall with default scope under the same snapshot: the section holds no  *)
(* entry and the script directory no wrapper script, whether or not a section  *)
(* existed at the start.                                                       *)
C13_RoundTrip ==
    [][RoundTrip
        => /\ Managed(crontab') = <<>>
           /\ WrapperScripts(scripts') = {}]_vars

Invoked == last'.op \in {"install", "uninstall", "list"}

(* C14: when `crontab -l` exits non-zero, the invocation (list, install,       *)
(* uninstall) does not end there: the store takes the content to be the empty  *)
(* string and the command goes on as it does on an empty crontab.              *)
C14_ReadFailureNonFatal ==
    [][(Invoked /\ last'.read = "CalledProcessError")
        => /\ last'.call # "crontab -l"
           /\ (last'.ends = "return" /\ last'.op = "list") => stdout' = <<>>
           /\ (last'.ends = "return" /\ last'.op = "uninstall")
                 => crontab' = crontab_set_entries(<<EmptyLine>>, <<>>)
           /\ (last'.ends = "return" /\ last'.op = "install")
                 => crontab' = crontab_set_entries(<<EmptyLine>>,
                                   new_entries(last'.ids = {}, last'.ids))]_vars

(* C15: when `meltano schedule list` or `crontab -` exits non-zero, the process *)
(* logs one critical message and ends with the exit code of that command; when *)
(* it is the write that fails, the content of the store is as before.          *)
C15_FatalExternalFailure ==
    [][(/\ Invoked
        /\ last'.call \in {"meltano schedule list", "crontab -"}
        /\ last'.raised = "CalledProcessError")
        => /\ last'.ends # "return"
           /\ last'.log = <<"critical">>
           /\ last'.exit = last'.returncode
           /\ last'.call = "crontab -" => crontab' = crontab]_vars

Accesses(op, target) == last'.op = op /\ last'.target = target

\* the text that consists of these lines, each ended by a newline
TextOf(lines) == Append(lines, EmptyLine)

(* C16: the stdout store: reading `entries` gives the empty sequence in every  *)
(* state, also after writes; assigning `entries` emits exactly the lines       *)
(* given, in order, two of one name included; neither changes the crontab.     *)
C16_TransientStore ==
    [][/\ Accesses("get", "stdout") => (last'.result = <<>> /\ crontab' = crontab)
       /\ Accesses("set", "stdout") => (stdout' = TextOf(last'.given) /\ crontab' = crontab)]_vars

\* what list prints for these entries
Printed(es, name_only) == IF es = <<>> THEN <<>> ELSE TextOf(listed(es, name_only))

Lists(orphaned) == Runs("list", "crontab") /\ last'.orphaned = orphaned

(* C17: list --orphaned prints the managed entries of the section whose name   *)
(* is not in the snapshot, list --not-orphaned those whose name is in it, list *)
(* all of them, each in section order; the two filtered results share no entry *)
(* and together make up the unfiltered one; list changes neither the crontab   *)
(* nor the scripts.                                                            *)
C17_OrphanPartition ==
    [][Runs("list", "crontab")
        => LET all == Managed(crontab)
               orphans == SelectSeq(all, IsOrphan)
               known == SelectSeq(all, LAMBDA e : ~IsOrphan(e))
           IN  /\ Lists("True") => stdout' = Printed(orphans, last'.name_only)
               /\ Lists("False") => stdout' = Printed(known, last'.name_only)
               /\ Lists("None") => stdout' = Printed(all, last'.name_only)
               /\ filtered_entries(entries("crontab"), "True") = orphans
               /\ filtered_entries(entries("crontab"), "False") = known
               /\ Range(orphans) \cap Range(known) = {}
               /\ Len(orphans) + Len(known) = Len(all)
               /\ crontab' = crontab /\ scripts' = scripts]_vars

\* list --orphaned ran over a section with an orphaned and a known entry and
\* printed the orphaned one only
C17_Witness ==
    /\ Ran("list", "crontab") /\ last.orphaned = "True" /\ ~last.name_only
    /\ NamesOf(Managed(crontab)) = {"a", "b"}
    /\ meltano_schedule_ids = {"b"}
    /\ stdout = TextOf(Named(Managed(crontab), "a"))

\* a marker line that carries the id of this project
OwnMarker(line) ==
    /\ line.kind = "comment"
    /\ line.mark \in {"BEGIN", "END"}
    /\ line.id = MELTANO_PROJECT_ID

\* a marker line of another project, or one without a parenthesized id
OtherMarker(line) ==
    /\ line.kind = "comment"
    /\ line.mark \in {"BEGIN", "END"}
    /\ line.id # MELTANO_PROJECT_ID

NoOwnMarker(text) == \A i \in 1..Len(text) : ~OwnMarker(text[i])

AppendedSection(es) ==
    <<EmptyLine, Comment("BEGIN", MELTANO_PROJECT_ID, 5)>> \o es
        \o <<Comment("END", MELTANO_PROJECT_ID, 5), EmptyLine>>

KeyedMarkers ==
    LET lines == splitlines(crontab)
        ix == find_meltano_section_indices(lines)
    IN  /\ ix.found => /\ OwnMarker(lines[ix.a])
                       /\ OwnMarker(lines[Len(lines) + ix.b + 1])
        /\ NoOwnMarker(crontab) =>
              /\ ~ix.found
              /\ Accesses("get", "crontab") => last'.result = <<>>
              /\ Runs("install", "crontab") =>
                    crontab' = lines \o AppendedSection(new_entries(last'.ids = {}, last'.ids))

\* C18: only the markers that carry exactly this project's id are section boundaries;
\* on a crontab whose markers all belong to other projects or carry no id the locator
\* finds no section, the getter returns nothing, and install leaves every line in
\* place and appends a new section of this project after them.
C18_ProjectKeyedMarkers == [][KeyedMarkers]_vars

\* install ran on a crontab that held another project's section: that section is
\* intact and this project's section follows it
C18_Witness ==
    /\ Ran("install", "crontab")
    /\ Len(crontab) >= 7
    /\ SubSeq(crontab, 1, 3) = <<Comment("BEGIN", OtherProjectId, 3),
                                 Cmd("0 * * * *", TRUE, ScriptPath(OtherDir, "a", "sh")),
                                 Comment("END", OtherProjectId, 3)>>
    /\ SubSeq(crontab, 4, Len(crontab)) = AppendedSection(new_entries(TRUE, {}))
    /\ new_entries(TRUE, {}) # <<>>

\* the entry lines of the section as Cron.uninstall reads them
EntryLines(text) == SelectSeq(SectionLines(text), cron_entry_pattern)

\* the removal predicate of the uninstall the step runs
Removes(name) ==
    \/ last'.all
    \/ last'.ids # {} /\ name \in last'.ids
    \/ last'.ids = {} /\ name \in meltano_schedule_ids

PathsOf(es) == {es[i].path : i \in 1..Len(es)}

ScriptDeletion ==
    Runs("uninstall", "crontab") =>
        LET pre == EntryLines(crontab)
            removed == SelectSeq(pre, LAMBDA e : Removes(e.path.name))
        IN  /\ scripts' = scripts \ PathsOf(removed)
            /\ last'.exit = 0
            /\ PathsOf(Managed(crontab')) \cap scripts \subseteq scripts'
            /\ scripts \ scripts' \subseteq PathsOf(pre)

\* C19: uninstall deletes the scripts at the quoted paths of exactly the entries it
\* read before its write whose name the removal predicate selects, whether or not
\* each of them exists; the scripts of the entries that remain in the section and
\* the scripts no entry line of the section names stay.
C19_ScriptDeletion == [][ScriptDeletion]_vars

\* `uninstall a` on the entries a and b: the script of a is gone, the script of b
\* and a script that no entry line of the section names are still there
C19_Witness ==
    /\ Ran("uninstall", "crontab")
    /\ last.ids = {"a"} /\ ~last.all
    /\ last.prev_names = {"a", "b"}
    /\ NamesOf(Managed(crontab)) = {"b"}
    /\ command_script("b") \in scripts
    /\ command_script("a") \notin scripts
    /\ ScriptPath(OtherDir, "a", "sh") \in scripts

\* the invocation that hands its text to `crontab -` in this step
Writes(p) == last.procs[p].pc = "write" /\ last'.procs[p].pc # "write"

\* the entries an invocation leaves in the section, from the content it read
EntriesFrom(content, c) ==
    LET schedule_ids == Range(c.argv)
        removed == IF schedule_ids # {} THEN schedule_ids ELSE meltano_schedule_ids
    IN  IF c.cmd = "install"
        THEN [i \in 1..Len(c.argv) |-> LineOf(c.argv[i])]
                 \o SelectSeq(Managed(content), LAMBDA e : e.path.name \notin schedule_ids)
        ELSE SelectSeq(Managed(content), LAMBDA e : e.path.name \notin removed)

LastWriterWins ==
    /\ \A p \in Invocations :
          Writes(p) =>
              crontab' = AppendedSection(EntriesFrom(last.procs[p].content,
                                                     last.procs[p].cmd))
    /\ (\A p \in Invocations : ~Writes(p)) => crontab' = crontab

\* C20: invocations that overlap are not serialised: every write replaces the whole
\* crontab by the text the writer computed from the content it had read, whatever
\* the others wrote in between, and no other step changes the crontab; so the
\* crontab is always the whole content of the last writer.
C20_LastWriterWins == [][LastWriterWins]_vars

Finished(p, cmd, argv) ==
    /\ last.procs[p].pc = "done"
    /\ last.procs[p].cmd = CommandLine(cmd, "crontab", argv, FALSE)

\* `install b`, `uninstall a` and `install a` ran to their end on a crontab that held
\* a: the entry b that `install b` wrote is gone (nothing uninstalled b) and the
\* entry a is in the crontab while its script has been unlinked by `uninstall a`
C20_Witness ==
    /\ last.op = "concurrent"
    /\ \E p, q, r \in Invocations :
          /\ Finished(p, "install", <<"b">>)
          /\ Finished(q, "uninstall", <<"a">>)
          /\ Finished(r, "install", <<"a">>)
    /\ NamesOf(Managed(crontab)) = {"a"}
    /\ command_script("a") \notin scripts
    /\ command_script("b") \in scripts

\* every managed entry of the section names a script that exists
EveryEntryHasItsScript(text, files) == PathsOf(Managed(text)) \subseteq files

\* the scripts of the schedules an install selects
SelectedScripts(c) ==
    {ScriptPath(RunDir, name, "sh") :
        name \in IF c.argv = <<>> THEN meltano_schedule_ids
                 ELSE Range(c.argv) \cap meltano_schedule_ids}

ScriptBeforeEntry ==
    /\ \A p \in Invocations :
          (Writes(p) /\ last.procs[p].cmd.cmd = "install" /\ crontab' # crontab)
              => SelectedScripts(last.procs[p].cmd) \subseteq scripts
    /\ (scripts \ scripts') \cap PathsOf(Managed(crontab)) = {}
    /\ EveryEntryHasItsScript(crontab, scripts)
    /\ EveryEntryHasItsScript(crontab', scripts')

\* C21: with one invocation at a time, the scripts an install selects exist before
\* its write, and the scripts an uninstall unlinks are named by no entry of the
\* crontab any more; in every state between the steps, and after a failed
\* `crontab -`, each managed entry of the section names a script that exists.
C21_ScriptBeforeEntry == [][ScriptBeforeEntry]_vars

\* `install b` ended on a failed write (its script exists, its entry does not) and
\* `uninstall a` has written but not yet unlinked: the entry a is gone, its script
\* is still there
C21_Witness ==
    /\ last.op = "concurrent"
    /\ \E p, q \in Invocations :
          /\ last.procs[p].cmd = CommandLine("install", "crontab", <<"b">>, FALSE)
          /\ last.procs[p].pc = "done" /\ last.procs[p].exit = 1
          /\ last.procs[q].cmd = CommandLine("uninstall", "crontab", <<"a">>, FALSE)
          /\ last.procs[q].pc = "unlink"
    /\ Managed(crontab) = <<>>
    /\ scripts = {command_script("a"), command_script("b")}

SectionAfterWrite ==
    Mutates("crontab") =>
        /\ \E i \in 1..Len(crontab') : OwnMarker(crontab'[i]) /\ crontab'[i].mark = "BEGIN"
        /\ \E i \in 1..Len(crontab') : OwnMarker(crontab'[i]) /\ crontab'[i].mark = "END"
        /\ find_meltano_section_indices(splitlines(crontab')).found
        /\ (Runs("uninstall", "crontab") /\ ~HasSection(crontab)) =>
              crontab' = splitlines(crontab) \o AppendedSection(<<>>)

\* C22: after every install and uninstall on the crontab the text holds a BEGIN and
\* an END marker of this project and the locator finds a section; uninstall on a
\* crontab without a section keeps its lines and appends a blank line, BEGIN and END.
C22_SectionAfterWrite == [][SectionAfterWrite]_vars

\* uninstall ran on a crontab that held one line of the user and no section
C22_Witness ==
    /\ Ran("uninstall", "crontab")
    /\ last.prev_names = {}
    /\ crontab = <<Foreign>> \o AppendedSection(<<>>)

\* the last END marker of the project lies before its first BEGIN marker
Crossed(text) ==
    /\ HasSection(text)
    /\ Max(Ends(splitlines(text))) < Min(Begins(splitlines(text)))

CrossedGetterEmpty ==
    (Crossed(crontab) /\ Accesses("get", "crontab")) => last'.result = <<>>

\* the new lines are the old ones, each once and in order, with lines of the
\* assignment put in at one place
KeepsEveryLineOnce(old, new, given) ==
    /\ Len(new) >= Len(old)
    /\ \E k \in 0..Len(old) :
          /\ SubSeq(new, 1, k) = SubSeq(old, 1, k)
          /\ SubSeq(new, Len(new) - (Len(old) - k) + 1, Len(new)) = SubSeq(old, k + 1, Len(old))
          /\ \A i \in (k + 1)..(Len(new) - (Len(old) - k)) : new[i] \in Range(given)

CrossedWriteKeepsLines ==
    (Crossed(crontab) /\ Accesses("set", "crontab")) =>
        KeepsEveryLineOnce(splitlines(crontab), splitlines(crontab'), last'.given)

\* C23: on a crontab whose last END marker lies before its first BEGIN marker the
\* getter returns no entries, and an assignment to `entries` keeps every line of
\* the crontab exactly once, none duplicated and none dropped.
C23_CrossedMarkers == [][CrossedGetterEmpty /\ CrossedWriteKeepsLines]_vars

====
